---- MODULE Spec2Model ----
(***************************************************************************)
(* Organization Management Service: the tenant lifecycle (create, read,    *)
(* rename, delete, login) of app/services/org_service.py over the MongoDB  *)
(* helpers of app/db.py.  Every handler is an async function; each await   *)
(* of a database call is one atomic step, and handlers of different        *)
(* requests interleave between awaits (Spec).  SeqSpec runs one request at *)
(* a time, each to completion: the contracts of single calls are stated    *)
(* there, against the database the call started from (pre).                *)
(***************************************************************************)
EXTENDS Integers, Sequences, FiniteSets, TLC

\* ------------------------------------------------------------------ bounds
MaxIds == 4
MaxTokens == 1

\* The request handlers that can be in flight together.
Procs == {"h1", "h2"}
\* The documents tenants store: opaque to the service.
Docs == {"d1"}

\* ------------------------------------------------------- strings and names
\* A name is a sequence of one-character strings.
UpperChars == <<"A", "B", "C", "Z">>
LowerChars == <<"a", "b", "c", "z">>

\* str.lower() on one character
LowerChar(c) ==
  IF \E i \in 1..Len(UpperChars) : UpperChars[i] = c
  THEN LowerChars[CHOOSE i \in 1..Len(UpperChars) : UpperChars[i] = c]
  ELSE c

\* str.lower()
StrLower(s) == [i \in 1..Len(s) |-> LowerChar(s[i])]

IsSpace(c) == c = " "

RECURSIVE LStrip(_)
LStrip(s) == IF s # <<>> /\ IsSpace(Head(s)) THEN LStrip(Tail(s)) ELSE s

RECURSIVE RStrip(_)
RStrip(s) ==
  IF s # <<>> /\ IsSpace(s[Len(s)]) THEN RStrip(SubSeq(s, 1, Len(s) - 1)) ELSE s

\* str.strip()
Strip(s) == RStrip(LStrip(s))

\* organization_name.strip().lower()
Normalize(s) == StrLower(Strip(s))

\* f"org_{org_name}"
CollName(org_name) == <<"o", "r", "g", "_">> \o org_name

\* OrgCreate.organization_name: Field(..., min_length=3)
MinNameLen == 3

None == "None"

\* The values requests carry (None: the optional field is absent).  Sequential
\* runs draw names in several spellings and may change either credential;
\* interleaved runs draw two names and keep the credentials.
SeqInputs ==
  [names |-> { <<"a", "c", "b">>, <<" ", "A", "c", "B", " ">>,
               <<"b", "a", "b">>, <<"z", "a", "c">> },
   emails |-> {"e1"},
   passwords |-> {"p1"},
   new_emails |-> {None, "e2"},
   new_passwords |-> {None, "p2"}]

ConcInputs ==
  [names |-> { <<"A", "c", "b", " ">>, <<"b", "a", "b">> },
   emails |-> {"e1"},
   passwords |-> {"p1"},
   new_emails |-> {None},
   new_passwords |-> {"p1"}]

\* app.utils.hash_password / verify_password
HashPassword(pw) == <<"hash", pw>>
VerifyPassword(pw, hashed) == hashed = HashPassword(pw)

\* ------------------------------------------------------------------- state
VARIABLES
  organizations,  \* db.organizations: a set of documents
  admins,         \* db.admins: a set of documents
  collections,    \* the tenant collections: collection name -> set of documents
  tokens,         \* the bearer claims issued by login and still valid
  nextId,         \* the next ObjectId the store generates
  proc,           \* each request handler: its operation, position and locals
  pre             \* history: the database when the call in flight started, for a
                  \* call that overlaps no other

vars == <<organizations, admins, collections, tokens, nextId, proc, pre>>

NoOrg == [id |-> 0, organization_name |-> <<>>, collection_name |-> <<>>, admin_id |-> 0]
NoAdmin == [id |-> 0, email |-> None, password |-> <<>>, organization |-> <<>>]
NoClaim == [admin_id |-> 0, org_id |-> <<>>]
NoDb == [organizations |-> {}, admins |-> {}, collections |-> <<>>, set |-> FALSE]

\* The database as one value (the state a call starts from).
Db == [organizations |-> organizations, admins |-> admins,
       collections |-> collections, set |-> TRUE]

Idle ==
  [op |-> "idle", pc |-> "idle", raw |-> <<>>, email |-> None, password |-> None,
   claim |-> NoClaim, org_name |-> <<>>, new_org_name |-> <<>>, org |-> NoOrg,
   res_id |-> 0, admin |-> NoAdmin, result |-> "none", out |-> NoOrg]

Init ==
  /\ organizations = {}
  /\ admins = {}
  /\ collections = <<>>
  /\ tokens = {}
  /\ nextId = 1
  /\ proc = [p \in Procs |-> Idle]
  /\ pre = NoDb

\* ----------------------------------------------------------- store helpers
\* db.organizations.find_one({"organization_name": name}): the matching documents
\* (find_one returns one of them, or None when there is none)
OrgsNamed(name) == {o \in organizations : o.organization_name = name}

\* db.list_collection_names()
ListCollectionNames == DOMAIN collections

\* db.create_collection(coll)
WithCollection(coll) == collections @@ (coll :> {})

\* db.drop_collection(coll): no error when the collection is absent
WithoutCollection(coll) == [c \in (DOMAIN collections) \ {coll} |-> collections[c]]

\* Defect variant: the copy writes no document.
OutMutEmpty(old, new) ==
  [c \in (DOMAIN collections) \cup {new} |-> IF c = new THEN {} ELSE collections[c]]
\* old_coll.aggregate([{"$match": {}}, {"$out": new}]): the new collection is
\* created or replaced by the documents of the old one (none when it is absent)
Out(old, new) ==
  LET src == IF old \in DOMAIN collections THEN collections[old] ELSE {}
  IN [c \in (DOMAIN collections) \cup {new} |->
        IF c = new THEN src ELSE collections[c]]

\* The ObjectIds the creates in flight will still draw: a create that passes its
\* pre-check starts only when two ObjectIds are left for it.
IdsReserved ==
  LET need(p) == IF proc[p].op # "create" THEN 0
                 ELSE IF proc[p].pc \in {"c_list", "c_mkcoll", "c_admin"} THEN 2
                 ELSE IF proc[p].pc = "c_org" THEN 1 ELSE 0
      RECURSIVE sum(_)
      sum(S) == IF S = {} THEN 0
                ELSE LET x == CHOOSE y \in S : TRUE IN need(x) + sum(S \ {x})
  IN sum(Procs)

OthersIdle(p) == \A q \in Procs \ {p} : proc[q].pc = "idle"
AllIdle == \A q \in Procs : proc[q].pc = "idle"

Finish(p, res, doc) ==
  [proc EXCEPT ![p].pc = "done", ![p].result = res, ![p].out = doc]

\* ------------------------------------------------------------------ create
\* Defect variant: create_organization without its uniqueness pre-check.
Create1MutNoCheck(p, I) ==
  /\ proc[p].pc = "idle"
  /\ nextId + IdsReserved + 1 <= MaxIds
  /\ \E raw \in I.names, email \in I.emails, pw \in I.passwords :
       proc' = [proc EXCEPT ![p] =
                  [Idle EXCEPT !.op = "create", !.raw = raw, !.email = email,
                               !.password = pw, !.org_name = Normalize(raw),
                               !.pc = "c_list"]]
  /\ UNCHANGED <<organizations, admins, collections, tokens, nextId>>
  /\ pre' = IF OthersIdle(p) THEN Db ELSE NoDb
\* create_organization, lines 19-25: normalize, then the uniqueness pre-check
Create1(p, I) ==
  /\ proc[p].pc = "idle"
  /\ \E raw \in I.names, email \in I.emails, pw \in I.passwords :
       /\ Len(raw) >= MinNameLen
       /\ OrgsNamed(Normalize(raw)) = {} => nextId + IdsReserved + 1 <= MaxIds
       /\ LET org_name == Normalize(raw)
              started == [Idle EXCEPT !.op = "create", !.raw = raw, !.email = email,
                                      !.password = pw, !.org_name = org_name]
          IN proc' = [proc EXCEPT ![p] =
                        IF OrgsNamed(org_name) # {}
                        THEN [started EXCEPT !.pc = "done", !.result = "AlreadyExists"]
                        ELSE [started EXCEPT !.pc = "c_list"]]
  /\ UNCHANGED <<organizations, admins, collections, tokens, nextId>>
  /\ pre' = IF OthersIdle(p) THEN Db ELSE NoDb

\* create_org_collection, lines 25-26: list the collections, test membership
Create2(p) ==
  /\ proc[p].op = "create" /\ proc[p].pc = "c_list"
  /\ proc' = [proc EXCEPT ![p].pc =
                IF CollName(proc[p].org_name) \notin ListCollectionNames
                THEN "c_mkcoll" ELSE "c_admin"]
  /\ UNCHANGED <<organizations, admins, collections, tokens, nextId>>
  /\ UNCHANGED pre

\* create_org_collection, line 27: create_collection raises when the collection
\* has appeared since the listing
Create3(p) ==
  /\ proc[p].op = "create" /\ proc[p].pc = "c_mkcoll"
  /\ LET coll == CollName(proc[p].org_name)
     IN IF coll \in DOMAIN collections
        THEN /\ proc' = Finish(p, "error", NoOrg)
             /\ UNCHANGED collections
        ELSE /\ collections' = WithCollection(coll)
             /\ proc' = [proc EXCEPT ![p].pc = "c_admin"]
  /\ UNCHANGED <<organizations, admins, tokens, nextId>>
  /\ UNCHANGED pre

\* create_organization, lines 33-39: insert the admin document
Create4(p) ==
  /\ proc[p].op = "create" /\ proc[p].pc = "c_admin"
  /\ admins' = admins \cup
       {[id |-> nextId, email |-> proc[p].email,
         password |-> HashPassword(proc[p].password),
         organization |-> proc[p].org_name]}
  /\ nextId' = nextId + 1
  /\ proc' = [proc EXCEPT ![p].pc = "c_org", ![p].res_id = nextId]
  /\ UNCHANGED <<organizations, collections, tokens>>
  /\ UNCHANGED pre

\* create_organization, lines 42-54: insert the organization document
Create5(p) ==
  /\ proc[p].op = "create" /\ proc[p].pc = "c_org"
  /\ LET org_doc == [id |-> nextId, organization_name |-> proc[p].org_name,
                     collection_name |-> CollName(proc[p].org_name),
                     admin_id |-> proc[p].res_id]
     IN /\ organizations' = organizations \cup {org_doc}
        /\ proc' = Finish(p, "ok", org_doc)
  /\ nextId' = nextId + 1
  /\ UNCHANGED <<admins, collections, tokens>>
  /\ UNCHANGED pre

\* --------------------------------------------------------------------- get
\* Defect variant: the lookup uses the name as given, not its normal form.
GetOrganizationMutRaw(raw) ==
  LET found == OrgsNamed(raw)
  IN IF found = {} THEN {[result |-> "NotFound", out |-> NoOrg]}
     ELSE {[result |-> "ok", out |-> o] : o \in found}
\* get_organization: what a lookup of a raw name can return in this state
GetOrganization(raw) ==
  LET found == OrgsNamed(Normalize(raw))
  IN IF found = {} THEN {[result |-> "NotFound", out |-> NoOrg]}
     ELSE {[result |-> "ok", out |-> o] : o \in found}

Get(p, I) ==
  /\ proc[p].pc = "idle"
  /\ \E raw \in I.names : \E r \in GetOrganization(raw) :
       proc' = [proc EXCEPT ![p] =
                  [Idle EXCEPT !.op = "get", !.pc = "done", !.raw = raw,
                               !.org_name = Normalize(raw),
                               !.result = r.result, !.out = r.out]]
  /\ UNCHANGED <<organizations, admins, collections, tokens, nextId>>
  /\ pre' = IF OthersIdle(p) THEN Db ELSE NoDb

\* ------------------------------------------------------------------ update
\* Where update_organization goes once the rename block is over (line 115).
AfterRename(p) ==
  IF proc[p].email # None \/ proc[p].password # None THEN "u_cred" ELSE "u_fetch"

\* Defect variant: an update to the tenant's own name skips the credentials.
Update1MutSkipCredentials(p, I) ==
  /\ proc[p].pc = "idle"
  /\ \E claim \in tokens, raw \in I.names,
        email \in I.new_emails, pw \in I.new_passwords :
       LET target == claim.org_id
           new == Normalize(raw)
           started == [Idle EXCEPT !.op = "update", !.raw = raw, !.email = email,
                                   !.password = pw, !.claim = claim,
                                   !.org_name = target, !.new_org_name = new]
       IN IF OrgsNamed(target) = {}
          THEN proc' = [proc EXCEPT ![p] =
                          [started EXCEPT !.pc = "done", !.result = "NotFound"]]
          ELSE \E org \in OrgsNamed(target) :
                 proc' = [proc EXCEPT ![p] =
                            [started EXCEPT !.org = org,
                               !.pc = IF new # target THEN "u_check" ELSE "u_fetch"]]
  /\ UNCHANGED <<organizations, admins, collections, tokens, nextId>>
  /\ pre' = IF OthersIdle(p) THEN Db ELSE NoDb
\* update_organization, lines 78-89: resolve the tenant from the claim
Update1(p, I) ==
  /\ proc[p].pc = "idle"
  /\ \E claim \in tokens, raw \in I.names,
        email \in I.new_emails, pw \in I.new_passwords :
       LET target == claim.org_id
           new == Normalize(raw)
           started == [Idle EXCEPT !.op = "update", !.raw = raw, !.email = email,
                                   !.password = pw, !.claim = claim,
                                   !.org_name = target, !.new_org_name = new]
       IN IF OrgsNamed(target) = {}
          THEN proc' = [proc EXCEPT ![p] =
                          [started EXCEPT !.pc = "done", !.result = "NotFound"]]
          ELSE \E org \in OrgsNamed(target) :
                 proc' = [proc EXCEPT ![p] =
                            [started EXCEPT !.org = org,
                               !.pc = IF new # target THEN "u_check"
                                      ELSE IF email # None \/ pw # None
                                           THEN "u_cred" ELSE "u_fetch"]]
  /\ UNCHANGED <<organizations, admins, collections, tokens, nextId>>
  /\ pre' = IF OthersIdle(p) THEN Db ELSE NoDb

\* Defect variant: the rename does not check that the new name is free.
Update2MutNoCheck(p) ==
  /\ proc[p].op = "update" /\ proc[p].pc = "u_check"
  /\ proc' = [proc EXCEPT ![p].pc = "u_org"]
  /\ UNCHANGED <<organizations, admins, collections, tokens, nextId>>
  /\ UNCHANGED pre
\* update_organization, lines 91-93: the new name must be free
Update2(p) ==
  /\ proc[p].op = "update" /\ proc[p].pc = "u_check"
  /\ proc' = IF OrgsNamed(proc[p].new_org_name) # {}
             THEN Finish(p, "AlreadyExists", NoOrg)
             ELSE [proc EXCEPT ![p].pc = "u_org"]
  /\ UNCHANGED <<organizations, admins, collections, tokens, nextId>>
  /\ UNCHANGED pre

\* Defect variants: the update sets one of the two fields only.
SetOrgNameMutCollectionOnly(org_id, new) ==
  {IF o.id = org_id THEN [o EXCEPT !.collection_name = CollName(new)] ELSE o :
     o \in organizations}
SetOrgNameMutNameOnly(org_id, new) ==
  {IF o.id = org_id THEN [o EXCEPT !.organization_name = new] ELSE o :
     o \in organizations}
\* update_organization, lines 95-101: one update_one of the document found in
\* step 1, by its _id, setting the name and the collection name together
SetOrgName(org_id, new) ==
  {IF o.id = org_id
   THEN [o EXCEPT !.organization_name = new, !.collection_name = CollName(new)]
   ELSE o : o \in organizations}

Update3(p) ==
  /\ proc[p].op = "update" /\ proc[p].pc = "u_org"
  /\ organizations' = SetOrgName(proc[p].org.id, proc[p].new_org_name)
  /\ proc' = [proc EXCEPT ![p].pc = "u_admin"]
  /\ UNCHANGED <<admins, collections, tokens, nextId>>
  /\ UNCHANGED pre

\* Defect variant: the rename leaves the admin's tenant-link as it was.
Update4MutSkipAdminLink(p) ==
  /\ proc[p].op = "update" /\ proc[p].pc = "u_admin"
  /\ proc' = [proc EXCEPT ![p].pc = "u_list"]
  /\ UNCHANGED <<organizations, admins, collections, tokens, nextId>>
  /\ UNCHANGED pre
\* update_organization, lines 103-106: the tenant-link of the claim's admin
Update4(p) ==
  /\ proc[p].op = "update" /\ proc[p].pc = "u_admin"
  /\ admins' = {IF a.id = proc[p].claim.admin_id
                THEN [a EXCEPT !.organization = proc[p].new_org_name]
                ELSE a : a \in admins}
  /\ proc' = [proc EXCEPT ![p].pc = "u_list"]
  /\ UNCHANGED <<organizations, collections, tokens, nextId>>
  /\ UNCHANGED pre

\* rename_and_sync_collection, lines 54-56: nothing to migrate when the old
\* collection is not listed
Update5(p) ==
  /\ proc[p].op = "update" /\ proc[p].pc = "u_list"
  /\ proc' = IF CollName(proc[p].org_name) \notin ListCollectionNames
             THEN [proc EXCEPT ![p].pc = AfterRename(p),
                               ![p].org_name = proc[p].new_org_name]
             ELSE [proc EXCEPT ![p].pc = "u_copy"]
  /\ UNCHANGED <<organizations, admins, collections, tokens, nextId>>
  /\ UNCHANGED pre

\* Defect variant: drop-then-copy, the old collection goes before the copy.
Update6MutDropBeforeCopy(p) ==
  /\ proc[p].op = "update" /\ proc[p].pc = "u_copy"
  /\ collections' = WithoutCollection(CollName(proc[p].org_name))
  /\ proc' = [proc EXCEPT ![p].pc = "u_drop"]
  /\ UNCHANGED <<organizations, admins, tokens, nextId>>
  /\ UNCHANGED pre
\* rename_and_sync_collection, lines 60-66: the server-side copy
Update6(p) ==
  /\ proc[p].op = "update" /\ proc[p].pc = "u_copy"
  /\ collections' = Out(CollName(proc[p].org_name), CollName(proc[p].new_org_name))
  /\ proc' = [proc EXCEPT ![p].pc = "u_drop"]
  /\ UNCHANGED <<organizations, admins, tokens, nextId>>
  /\ UNCHANGED pre

\* rename_and_sync_collection, line 69, and update_organization, line 112
Update7(p) ==
  /\ proc[p].op = "update" /\ proc[p].pc = "u_drop"
  /\ collections' = WithoutCollection(CollName(proc[p].org_name))
  /\ proc' = [proc EXCEPT ![p].pc = AfterRename(p),
                          ![p].org_name = proc[p].new_org_name]
  /\ UNCHANGED <<organizations, admins, tokens, nextId>>
  /\ UNCHANGED pre

\* update_organization, lines 115-123: the credentials of the claim's admin
Update8(p) ==
  /\ proc[p].op = "update" /\ proc[p].pc = "u_cred"
  /\ admins' = {IF a.id = proc[p].claim.admin_id
                THEN [a EXCEPT
                        !.email = IF proc[p].email # None
                                  THEN proc[p].email ELSE a.email,
                        !.password = IF proc[p].password # None
                                     THEN HashPassword(proc[p].password)
                                     ELSE a.password]
                ELSE a : a \in admins}
  /\ proc' = [proc EXCEPT ![p].pc = "u_fetch"]
  /\ UNCHANGED <<organizations, collections, tokens, nextId>>
  /\ UNCHANGED pre

\* update_organization, lines 126-129: fetch the document to return; indexing
\* None raises when no document carries the name any more
Update9(p) ==
  /\ proc[p].op = "update" /\ proc[p].pc = "u_fetch"
  /\ IF OrgsNamed(proc[p].org_name) = {}
     THEN proc' = Finish(p, "error", NoOrg)
     ELSE \E o \in OrgsNamed(proc[p].org_name) : proc' = Finish(p, "ok", o)
  /\ UNCHANGED <<organizations, admins, collections, tokens, nextId>>
  /\ UNCHANGED pre

\* ------------------------------------------------------------------ delete
\* Defect variant: delete_organization without its authorization check.
Delete1MutNoAuthorization(p, I) ==
  /\ proc[p].pc = "idle"
  /\ \E claim \in tokens, raw \in I.names :
       LET org_name == Normalize(raw)
           started == [Idle EXCEPT !.op = "delete", !.raw = raw, !.claim = claim,
                                   !.org_name = org_name]
       IN IF OrgsNamed(org_name) = {}
          THEN proc' = [proc EXCEPT ![p] =
                          [started EXCEPT !.pc = "done", !.result = "NotFound"]]
          ELSE \E org \in OrgsNamed(org_name) :
                 proc' = [proc EXCEPT ![p] =
                            [started EXCEPT !.org = org, !.pc = "d_list"]]
  /\ UNCHANGED <<organizations, admins, collections, tokens, nextId>>
  /\ pre' = IF OthersIdle(p) THEN Db ELSE NoDb
\* delete_organization, lines 138-146: authorization, then existence
Delete1(p, I) ==
  /\ proc[p].pc = "idle"
  /\ \E claim \in tokens, raw \in I.names :
       LET org_name == Normalize(raw)
           started == [Idle EXCEPT !.op = "delete", !.raw = raw, !.claim = claim,
                                   !.org_name = org_name]
       IN IF claim.org_id # org_name
          THEN proc' = [proc EXCEPT ![p] =
                          [started EXCEPT !.pc = "done", !.result = "Forbidden"]]
          ELSE IF OrgsNamed(org_name) = {}
          THEN proc' = [proc EXCEPT ![p] =
                          [started EXCEPT !.pc = "done", !.result = "NotFound"]]
          ELSE \E org \in OrgsNamed(org_name) :
                 proc' = [proc EXCEPT ![p] =
                            [started EXCEPT !.org = org, !.pc = "d_list"]]
  /\ UNCHANGED <<organizations, admins, collections, tokens, nextId>>
  /\ pre' = IF OthersIdle(p) THEN Db ELSE NoDb

\* drop_org_collection, lines 35-36
Delete2(p) ==
  /\ proc[p].op = "delete" /\ proc[p].pc = "d_list"
  /\ proc' = [proc EXCEPT ![p].pc =
                IF CollName(proc[p].org_name) \in ListCollectionNames
                THEN "d_drop" ELSE "d_admin"]
  /\ UNCHANGED <<organizations, admins, collections, tokens, nextId>>
  /\ UNCHANGED pre

\* drop_org_collection, line 37
Delete3(p) ==
  /\ proc[p].op = "delete" /\ proc[p].pc = "d_drop"
  /\ collections' = WithoutCollection(CollName(proc[p].org_name))
  /\ proc' = [proc EXCEPT ![p].pc = "d_admin"]
  /\ UNCHANGED <<organizations, admins, tokens, nextId>>
  /\ UNCHANGED pre

\* Defect variant: the registry record goes before the admin.
Delete4MutRecordFirst(p) ==
  /\ proc[p].op = "delete" /\ proc[p].pc = "d_admin"
  /\ organizations' = organizations \ {proc[p].org}
  /\ proc' = [proc EXCEPT ![p].pc = "d_org"]
  /\ UNCHANGED <<admins, collections, tokens, nextId>>
  /\ UNCHANGED pre
\* Defect variant: the delete removes the claim's admin, not the record's.
Delete4MutClaimAdmin(p) ==
  /\ proc[p].op = "delete" /\ proc[p].pc = "d_admin"
  /\ admins' = {a \in admins : a.id # proc[p].claim.admin_id}
  /\ proc' = [proc EXCEPT ![p].pc = "d_org"]
  /\ UNCHANGED <<organizations, collections, tokens, nextId>>
  /\ UNCHANGED pre
\* delete_organization, line 150: the admin the organization document names
Delete4(p) ==
  /\ proc[p].op = "delete" /\ proc[p].pc = "d_admin"
  /\ admins' = {a \in admins : a.id # proc[p].org.admin_id}
  /\ proc' = [proc EXCEPT ![p].pc = "d_org"]
  /\ UNCHANGED <<organizations, collections, tokens, nextId>>
  /\ UNCHANGED pre

\* delete_organization, lines 151-153: delete_one by name removes one matching
\* document (none when there is none)
Delete5(p) ==
  /\ proc[p].op = "delete" /\ proc[p].pc = "d_org"
  /\ IF OrgsNamed(proc[p].org_name) = {}
     THEN UNCHANGED organizations
     ELSE \E o \in OrgsNamed(proc[p].org_name) : organizations' = organizations \ {o}
  /\ proc' = Finish(p, "ok", NoOrg)
  /\ UNCHANGED <<admins, collections, tokens, nextId>>
  /\ UNCHANGED pre

\* ------------------------------------------------------------------- login
\* admin_login, lines 13-15: find_one by email returns one matching admin
Login1(p, I) ==
  /\ proc[p].pc = "idle"
  /\ \E email \in (I.emails \cup I.new_emails) \ {None},
        pw \in (I.passwords \cup I.new_passwords) \ {None} :
       LET started == [Idle EXCEPT !.op = "login", !.email = email,
                                   !.password = pw]
           found == {a \in admins : a.email = email}
       IN IF found = {}
          THEN proc' = [proc EXCEPT ![p] =
                          [started EXCEPT !.pc = "done", !.result = "Unauthorized"]]
          ELSE \E admin \in found :
                 proc' = [proc EXCEPT ![p] =
                            IF VerifyPassword(pw, admin.password)
                            THEN [started EXCEPT !.admin = admin, !.pc = "l_org"]
                            ELSE [started EXCEPT !.pc = "done",
                                                 !.result = "Unauthorized"]]
  /\ UNCHANGED <<organizations, admins, collections, tokens, nextId>>
  /\ pre' = IF OthersIdle(p) THEN Db ELSE NoDb

\* Defect variant: the claim carries the admin's tenant-link, not the name of
\* the organization found.
Login2MutAdminLink(p) ==
  /\ proc[p].op = "login" /\ proc[p].pc = "l_org"
  /\ LET found == {o \in organizations : o.admin_id = proc[p].admin.id}
     IN IF found = {}
        THEN /\ proc' = Finish(p, "Unauthorized", NoOrg)
             /\ UNCHANGED tokens
        ELSE LET claim == [admin_id |-> proc[p].admin.id,
                           org_id |-> proc[p].admin.organization]
             IN /\ claim \in tokens \/ Cardinality(tokens) < MaxTokens
                /\ tokens' = tokens \cup {claim}
                /\ proc' = [proc EXCEPT ![p].pc = "done", ![p].result = "ok",
                                        ![p].claim = claim]
  /\ UNCHANGED <<organizations, admins, collections, nextId>>
  /\ UNCHANGED pre
\* admin_login, lines 18-27, and create_access_token: the claim carries the
\* admin's id and the name of the organization that names this admin
Login2(p) ==
  /\ proc[p].op = "login" /\ proc[p].pc = "l_org"
  /\ LET found == {o \in organizations : o.admin_id = proc[p].admin.id}
     IN IF found = {}
        THEN /\ proc' = Finish(p, "Unauthorized", NoOrg)
             /\ UNCHANGED tokens
        ELSE \E org \in found :
               LET claim == [admin_id |-> proc[p].admin.id,
                             org_id |-> org.organization_name]
               IN /\ claim \in tokens \/ Cardinality(tokens) < MaxTokens
                  /\ tokens' = tokens \cup {claim}
                  /\ proc' = [proc EXCEPT ![p].pc = "done", ![p].result = "ok",
                                          ![p].claim = claim]
  /\ UNCHANGED <<organizations, admins, collections, nextId>>
  /\ UNCHANGED pre

\* create_access_token, line 16, and jwt.decode in get_current_admin: a claim
\* past its expiry is no longer accepted
Expire ==
  /\ \E claim \in tokens : tokens' = tokens \ {claim}
  /\ UNCHANGED <<organizations, admins, collections, nextId, proc, pre>>

\* ------------------------------------------------------- tenant documents
\* A tenant's application writes a document into an existing collection; the
\* documents are opaque to the service.
InsertDocument ==
  /\ \E coll \in DOMAIN collections, d \in Docs :
       /\ d \notin collections[coll]
       /\ collections' = [collections EXCEPT ![coll] = @ \cup {d}]
  /\ UNCHANGED <<organizations, admins, tokens, nextId, proc>>
  /\ pre' = NoDb

\* The handler returns its response.
Return(p) ==
  /\ proc[p].pc = "done"
  /\ proc' = [proc EXCEPT ![p] = Idle]
  /\ UNCHANGED <<organizations, admins, collections, tokens, nextId>>
  /\ pre' = NoDb

Step(p, I) ==
  \/ Create1(p, I) \/ Create2(p) \/ Create3(p) \/ Create4(p) \/ Create5(p)
  \/ Get(p, I)
  \/ Update1(p, I) \/ Update2(p) \/ Update3(p) \/ Update4(p) \/ Update5(p)
  \/ Update6(p) \/ Update7(p) \/ Update8(p) \/ Update9(p)
  \/ Delete1(p, I) \/ Delete2(p) \/ Delete3(p) \/ Delete4(p) \/ Delete5(p)
  \/ Login1(p, I) \/ Login2(p)
  \/ Return(p)

\* Requests interleave at every await.
Next ==
  \/ Step("h1", ConcInputs)
  \/ (proc["h1"].pc # "idle" \/ proc["h2"].pc # "idle") /\ Step("h2", ConcInputs)
  \/ InsertDocument

Spec == Init /\ [][Next]_vars

\* One request at a time, each served to completion by the same handler.
SeqNext ==
  \/ Step("h1", SeqInputs)
  \/ AllIdle /\ InsertDocument
  \/ AllIdle /\ Expire

SeqSpec == Init /\ [][SeqNext]_vars

\* --------------------------------------------------------------- crashes
\* A request that dies between two awaits (the process stops, or the awaited
\* call raises): no handler catches the failure, so the remaining steps never
\* run and nothing already written is undone.
Crash(p) ==
  /\ proc[p].pc \notin {"idle", "done"}
  /\ proc' = [proc EXCEPT ![p].pc = "done", ![p].result = "crashed"]
  /\ UNCHANGED <<organizations, admins, collections, tokens, nextId>>
  /\ UNCHANGED pre

\* A tenant's application writes into the collection its record names.
TenantInsertDocument ==
  /\ InsertDocument
  /\ \A c \in DOMAIN collections :
       collections'[c] # collections[c] =>
         \E o \in organizations : o.collection_name = c

\* One request at a time, each served to completion or until it dies.
CrashNext ==
  \/ Step("h1", ConcInputs)
  \/ Crash("h1")
  \/ AllIdle /\ TenantInsertDocument
  \/ AllIdle /\ Expire

CrashSpec == Init /\ [][CrashNext]_vars

\* ------------------------------------------------------------------ races
\* Two registered tenants, each with one document in its collection and a claim
\* from a login: the state after createTenant("acb"), createTenant("bab"), one
\* document written by each tenant and the login of both admins.
RaceOrgs ==
  {[id |-> 2, organization_name |-> <<"a", "c", "b">>,
    collection_name |-> CollName(<<"a", "c", "b">>), admin_id |-> 1],
   [id |-> 4, organization_name |-> <<"b", "a", "b">>,
    collection_name |-> CollName(<<"b", "a", "b">>), admin_id |-> 3]}

RaceAdmins ==
  {[id |-> 1, email |-> "e1", password |-> HashPassword("p1"),
    organization |-> <<"a", "c", "b">>],
   [id |-> 3, email |-> "e3", password |-> HashPassword("p1"),
    organization |-> <<"b", "a", "b">>]}

\* The document each tenant holds, by the identity of its record.
RaceDocs == (2 :> {"d1"}) @@ (4 :> {"d2"})

RaceInit ==
  /\ organizations = RaceOrgs
  /\ admins = RaceAdmins
  /\ collections = [c \in {o.collection_name : o \in RaceOrgs} |->
                      RaceDocs[(CHOOSE o \in RaceOrgs : o.collection_name = c).id]]
  /\ tokens = {[admin_id |-> o.admin_id, org_id |-> o.organization_name] :
                 o \in RaceOrgs}
  /\ nextId = 5
  /\ proc = [p \in Procs |-> Idle]
  /\ pre = NoDb

\* What the two racing requests carry: a new name that is free, or the name of
\* either tenant, and possibly a new password.
RaceInputs ==
  [names |-> { <<"z", "a", "c">>, <<"a", "c", "b">>, <<"b", "a", "b">> },
   emails |-> {"e1"},
   passwords |-> {"p1"},
   new_emails |-> {None},
   new_passwords |-> {None, "p2"}]

UpdateStep(p) ==
  \/ Update1(p, RaceInputs) \/ Update2(p) \/ Update3(p) \/ Update4(p)
  \/ Update5(p) \/ Update6(p) \/ Update7(p) \/ Update8(p) \/ Update9(p)

DeleteStep(p) ==
  \/ Delete1(p, RaceInputs) \/ Delete2(p) \/ Delete3(p) \/ Delete4(p)
  \/ Delete5(p)

\* One update races one other request, an update or a delete; the two
\* interleave at every await.
RaceNext ==
  \/ UpdateStep("h1")
  \/ UpdateStep("h2")
  \/ DeleteStep("h2")

RaceSpec == RaceInit /\ [][RaceNext]_vars
\* ------------------------------------------------------------ properties
\* The handler of the sequential runs, and the call it has just completed.
Call == proc["h1"]
Completed(op) == Call.op = op /\ Call.pc = "done" /\ pre.set

PreOrgsNamed(name) == {o \in pre.organizations : o.organization_name = name}
DbUnchanged ==
  /\ organizations = pre.organizations
  /\ admins = pre.admins
  /\ collections = pre.collections

NotFoundOnly == {[result |-> "NotFound", out |-> NoOrg]}

\* C1: sequential create uniqueness.  A create of a name whose normalized form is
\* not in the registry succeeds and adds exactly its one record and one admin; a
\* create of a name whose normalized form is in the registry returns
\* AlreadyExists and adds no record and no admin; either way the registry then
\* holds exactly one record of that normalized name.
C1_SequentialCreateUniqueness ==
  Completed("create") =>
    /\ Cardinality(OrgsNamed(Normalize(Call.raw))) = 1
    /\ IF PreOrgsNamed(Normalize(Call.raw)) # {}
       THEN /\ Call.result = "AlreadyExists"
            /\ organizations = pre.organizations
            /\ admins = pre.admins
       ELSE /\ Call.result = "ok"
            /\ pre.organizations \subseteq organizations
            /\ Cardinality(organizations) = Cardinality(pre.organizations) + 1
            /\ Cardinality(admins) = Cardinality(pre.admins) + 1

\* C1 witness: with two tenants of different names created, a further create of
\* one of the names, in another spelling, has returned AlreadyExists.
C1_Witness ==
  /\ Completed("create")
  /\ Call.result = "AlreadyExists"
  /\ Call.raw # Normalize(Call.raw)
  /\ Cardinality(organizations) = 2

\* C2: name uniqueness under concurrent create.  In every reachable state of the
\* interleaved handlers the registry holds at most one record per normalized
\* name.
C2_UniqueNamePerTenant ==
  \A o1, o2 \in organizations :
    o1.organization_name = o2.organization_name => o1 = o2

\* C3: rename preserves data.  A completed update of an existing tenant t to a
\* different free name succeeds, the collection derived from the new name exists and
\* holds exactly the documents the collection of t held when the call started,
\* and the collection derived from t is gone.
C3_RenamePreservesData ==
  (/\ Completed("update")
   /\ PreOrgsNamed(Call.claim.org_id) # {}
   /\ Normalize(Call.raw) # Call.claim.org_id
   /\ PreOrgsNamed(Normalize(Call.raw)) = {}) =>
    LET old == CollName(Call.claim.org_id)
        new == CollName(Normalize(Call.raw))
    IN /\ Call.result = "ok"
       /\ old \in DOMAIN pre.collections
       /\ new \in DOMAIN collections
       /\ collections[new] = pre.collections[old]
       /\ old \notin DOMAIN collections

\* C3 witness: a completed rename of a tenant whose collection held a document.
C3_Witness ==
  /\ Completed("update") /\ Call.result = "ok"
  /\ Call.new_org_name # Call.claim.org_id
  /\ CollName(Call.claim.org_id) \in DOMAIN pre.collections
  /\ pre.collections[CollName(Call.claim.org_id)] # {}

\* C4: delete removes everything.  After a completed authorized delete of n, no
\* record of n, no admin with the identity the record named and no collection
\* derived from n remain, and a lookup of n returns NotFound.
C4_DeleteRemovesEverything ==
  (Completed("delete") /\ Call.result = "ok") =>
    /\ OrgsNamed(Normalize(Call.raw)) = {}
    /\ \A a \in admins : a.id # Call.org.admin_id
    /\ CollName(Normalize(Call.raw)) \notin DOMAIN collections
    /\ GetOrganization(Call.raw) = NotFoundOnly

\* C4 witness: a completed delete of a tenant that had its record, its admin and
\* a collection holding a document.
C4_Witness ==
  /\ Completed("delete") /\ Call.result = "ok"
  /\ Call.org \in pre.organizations
  /\ \E a \in pre.admins : a.id = Call.org.admin_id
  /\ CollName(Call.org_name) \in DOMAIN pre.collections
  /\ pre.collections[CollName(Call.org_name)] # {}

\* C5: delete authorization.  A delete whose claim names a tenant other than the
\* normalized target returns Forbidden, whether or not the target exists, and
\* leaves every record, admin and collection as it was.
C5_DeleteForbidden ==
  (Completed("delete") /\ Call.claim.org_id # Normalize(Call.raw)) =>
    /\ Call.result = "Forbidden"
    /\ DbUnchanged

\* C5 witness: a Forbidden delete of an existing tenant by the claim of another
\* existing tenant.
C5_Witness ==
  /\ Completed("delete") /\ Call.result = "Forbidden"
  /\ OrgsNamed(Normalize(Call.raw)) # {}
  /\ OrgsNamed(Call.claim.org_id) # {}

\* C6: rename collision.  An update by an existing tenant to a different name
\* that is already in the registry returns AlreadyExists and changes nothing:
\* no record, no admin (the supplied email and password are not written) and no
\* collection.
C6_RenameCollision ==
  (/\ Completed("update")
   /\ PreOrgsNamed(Call.claim.org_id) # {}
   /\ Normalize(Call.raw) # Call.claim.org_id
   /\ PreOrgsNamed(Normalize(Call.raw)) # {}) =>
    /\ Call.result = "AlreadyExists"
    /\ DbUnchanged

\* C6 witness: a rename onto another tenant's name, with a new email and a new
\* password in the request, has returned AlreadyExists.
C6_Witness ==
  /\ Completed("update") /\ Call.result = "AlreadyExists"
  /\ Call.email # None /\ Call.password # None
  /\ \E a \in admins : a.id = Call.claim.admin_id

C8_RenameRetargetsLookups ==
  (/\ Completed("update")
   /\ PreOrgsNamed(Call.claim.org_id) # {}
   /\ Normalize(Call.raw) # Call.claim.org_id
   /\ PreOrgsNamed(Normalize(Call.raw)) = {}) =>
    /\ Call.result = "ok"
    /\ \A r \in GetOrganization(Call.raw) :
         /\ r.result = "ok"
         /\ r.out.organization_name = Normalize(Call.raw)
         /\ r.out.collection_name = CollName(Normalize(Call.raw))
         /\ r.out.id = Call.org.id
    /\ GetOrganization(Call.claim.org_id) = NotFoundOnly

\* C8 witness: a completed rename, requested in a spelling that is not
\* normalized, after which the registry holds the tenant under the new name.
C8_Witness ==
  /\ Completed("update") /\ Call.result = "ok"
  /\ Call.new_org_name # Call.claim.org_id
  /\ Call.raw # Normalize(Call.raw)
  /\ PreOrgsNamed(Call.claim.org_id) # {}
  /\ OrgsNamed(Call.new_org_name) # {}

\* C9: tenant-admin link.  In every state between completed calls, every record's
\* admin identity names an existing admin whose tenant-link is the record's
\* current name, and exactly one admin has that tenant-link.
C9_TenantAdminLink ==
  Call.pc \in {"idle", "done"} =>
    \A o \in organizations :
      /\ \E a \in admins : a.id = o.admin_id /\ a.organization = o.organization_name
      /\ Cardinality({a \in admins : a.organization = o.organization_name}) = 1

\* C10: collection-name derivation.  In every reachable state of the interleaved
\* handlers, the intermediate states of a rename included, every record's stored
\* collection name is "org_" followed by its stored name.
C10_CollectionNameDerived ==
  \A o \in organizations :
    o.collection_name = <<"o", "r", "g", "_">> \o o.organization_name

\* C10 witness: a rename in flight between its registry update and its admin
\* update, the record already carrying the new name.
C10_Witness ==
  \E p \in Procs :
    /\ proc[p].op = "update" /\ proc[p].pc = "u_admin"
    /\ \E o \in organizations :
         /\ o.id = proc[p].org.id
         /\ o.organization_name = proc[p].new_org_name
         /\ o.organization_name # proc[p].org.organization_name

\* A name in normal form: no surrounding whitespace, no upper-case character.
UpperSet == {UpperChars[j] : j \in 1..Len(UpperChars)}
IsNormalized(s) ==
  /\ s # <<>> => ~IsSpace(s[1]) /\ ~IsSpace(s[Len(s)])
  /\ \A i \in 1..Len(s) : s[i] \notin UpperSet

\* The normal form of every spelling a request can carry, and the spellings
\* that name the same tenant as raw.
NormalForm == [r \in SeqInputs.names |-> Normalize(r)]
SameName(raw) ==
  LET n == Normalize(raw) IN {r \in SeqInputs.names : NormalForm[r] = n}

\* The pairs of different spellings of one name.
Respelled ==
  {rr \in SeqInputs.names \X SeqInputs.names :
     rr[1] # rr[2] /\ NormalForm[rr[1]] = NormalForm[rr[2]]}

\* C11: normalization.  Raw names that are equal after trimming and lowercasing
\* address the same tenant: between calls, wherever a lookup can be made, a
\* lookup of either spelling returns the same answer;
\* a create in any spelling of a registered name returns AlreadyExists and
\* changes nothing; an authorized delete in any spelling of an existing tenant
\* removes it; a rename to a free name in any spelling makes every spelling of
\* that name resolve to the renamed record; and every stored name, every stored
\* collection name and every collection is in normal form.
C11_Normalization ==
  /\ \A o \in organizations :
       /\ IsNormalized(o.organization_name)
       /\ IsNormalized(o.collection_name)
  /\ \A a \in admins : IsNormalized(a.organization)
  /\ \A c \in DOMAIN collections : IsNormalized(c)
  /\ Call.pc = "idle" =>
       \A rr \in Respelled : GetOrganization(rr[1]) = GetOrganization(rr[2])
  /\ (Completed("create") /\ \E r \in SameName(Call.raw) : PreOrgsNamed(r) # {}) =>
       Call.result = "AlreadyExists" /\ DbUnchanged
  /\ (/\ Completed("delete")
      /\ \E r \in SameName(Call.raw) : r = Call.claim.org_id /\ PreOrgsNamed(r) # {}) =>
       /\ Call.result = "ok"
       /\ \A r \in SameName(Call.raw) : GetOrganization(r) = NotFoundOnly
  /\ (/\ Completed("update")
      /\ PreOrgsNamed(Call.claim.org_id) # {}
      /\ Normalize(Call.raw) # Call.claim.org_id
      /\ \A r \in SameName(Call.raw) : PreOrgsNamed(r) = {}) =>
       \A r \in SameName(Call.raw) : \A g \in GetOrganization(r) :
         /\ g.result = "ok"
         /\ g.out.id = Call.org.id
         /\ IsNormalized(g.out.organization_name)

\* C11 witness: with a tenant registered, a lookup in a spelling that is not in
\* normal form has returned its record, whose stored name differs from the
\* spelling given.
C11_Witness ==
  /\ Completed("get") /\ Call.result = "ok"
  /\ ~IsNormalized(Call.raw)
  /\ Call.out \in organizations
  /\ Call.out.organization_name # Call.raw
  /\ Cardinality(SameName(Call.raw)) > 1

\* C12: the login claim tracks the tenant.  A login that overlaps no other call
\* succeeds only for an admin that a record of the registry names, and its claim
\* then carries that admin's identity and the current name of such a record; a
\* login with credentials that match only admins no record names (the tenant
\* was deleted) returns Unauthorized.
C12_LoginClaimTracksTenant ==
  Completed("login") =>
    /\ Call.result \in {"ok", "Unauthorized"}
    /\ Call.result = "ok" =>
         /\ Call.claim \in tokens
         /\ \E a \in admins :
              /\ a.id = Call.claim.admin_id
              /\ a.email = Call.email
              /\ VerifyPassword(Call.password, a.password)
         /\ \E o \in organizations :
              /\ o.admin_id = Call.claim.admin_id
              /\ o.organization_name = Call.claim.org_id
    /\ (\A a \in admins :
          (a.email = Call.email /\ VerifyPassword(Call.password, a.password)) =>
            \A o \in organizations : o.admin_id # a.id) =>
         Call.result = "Unauthorized"

\* C12 witness: a successful login of an admin whose tenant has been renamed
\* while the admin's own tenant-link kept the earlier name: the claim carries
\* the record's current name.
C12_Witness ==
  /\ Completed("login") /\ Call.result = "ok"
  /\ \E o \in organizations, a \in admins :
       /\ o.admin_id = Call.claim.admin_id /\ a.id = o.admin_id
       /\ o.organization_name = Call.claim.org_id
       /\ a.organization # o.organization_name

\* The rename a call performs: from the name its claim carries to another name.
Renaming ==
  /\ Call.op = "update" /\ pre.set
  /\ Call.org # NoOrg
  /\ Call.new_org_name # Call.claim.org_id

\* C13: copy-then-drop never loses data.  In every state of a rename, from its
\* start to its return, a crash after any step included, the documents D the old
\* collection held when the call started are all in the old collection or all in
\* the new one; until the copy has run the old collection still holds exactly D,
\* and once the old collection is gone the new one holds D.
C13_CopyThenDropKeepsData ==
  (Renaming /\ CollName(Call.claim.org_id) \in DOMAIN pre.collections) =>
    LET old == CollName(Call.claim.org_id)
        new == CollName(Call.new_org_name)
        D == pre.collections[old]
        InOld == old \in DOMAIN collections /\ D \subseteq collections[old]
        InNew == new \in DOMAIN collections /\ D \subseteq collections[new]
    IN /\ InOld \/ InNew
       /\ Call.pc \in {"u_check", "u_org", "u_admin", "u_list", "u_copy"} =>
            old \in DOMAIN collections /\ collections[old] = D
       /\ old \notin DOMAIN collections => InNew

\* C13 witness: a rename that died between its copy and its drop: the old and
\* the new collection both exist and both hold the document the tenant had.
C13_Witness ==
  /\ Renaming /\ Call.pc = "done" /\ Call.result = "crashed"
  /\ LET old == CollName(Call.claim.org_id)
         new == CollName(Call.new_org_name)
     IN /\ old \in DOMAIN pre.collections /\ pre.collections[old] # {}
        /\ new \notin DOMAIN pre.collections
        /\ old \in DOMAIN collections /\ new \in DOMAIN collections
        /\ collections[old] = pre.collections[old]
        /\ collections[new] = pre.collections[old]

\* The copy of a rename has started: the call is at the copy, past it, or has
\* changed the collections.
CopyStarted ==
  /\ Renaming
  /\ Call.pc \in {"u_copy", "u_drop"} \/ collections # pre.collections

\* The registry names the tenant of the call new_org_name, with the collection
\* name derived from it.
RecordRenamed ==
  \E o \in organizations :
    /\ o.id = Call.org.id
    /\ o.organization_name = Call.new_org_name
    /\ o.collection_name = CollName(Call.new_org_name)

\* C14: rename step order.  In every state of a rename in which the copy has
\* started, a crash between copy and drop included, the tenant's record carries
\* the new name and the collection name derived from it, and the tenant's admin
\* (the admin the record names) has the new name as its tenant-link.
C14_RenameStepOrder ==
  CopyStarted =>
    /\ RecordRenamed
    /\ \E a \in admins :
         a.id = Call.org.admin_id /\ a.organization = Call.new_org_name

\* C14, for a caller that is the tenant's admin: the same, the tenant's admin
\* being the admin the claim identifies.
C14_RenameStepOrderOwnClaim ==
  (CopyStarted /\ Call.claim.admin_id = Call.org.admin_id) =>
    /\ RecordRenamed
    /\ \E a \in admins :
         a.id = Call.org.admin_id /\ a.organization = Call.new_org_name

\* A delete that has passed its authorization and existence checks.
Deleting == Call.op = "delete" /\ pre.set /\ Call.org # NoOrg

\* C15: delete step order.  In every state of a delete, a crash after any step
\* included: while the tenant's collection or the admin its record names still
\* exists, its record still exists; the record is in the registry at every step
\* before the last, the collection is gone from the admin step on, and the admin
\* is gone from the record step on.
C15_DeleteStepOrder ==
  Deleting =>
    LET coll == CollName(Call.org_name)
        HasColl == coll \in DOMAIN collections
        HasAdmin == \E a \in admins : a.id = Call.org.admin_id
    IN /\ (HasColl \/ HasAdmin) => Call.org \in organizations
       /\ Call.pc \in {"d_list", "d_drop", "d_admin", "d_org"} =>
            Call.org \in organizations
       /\ Call.pc \in {"d_admin", "d_org"} => ~HasColl
       /\ Call.pc = "d_org" => ~HasAdmin

\* C15 witness: a delete that died after removing the collection and the admin:
\* the record is all that is left of the tenant.
C15_Witness ==
  /\ Deleting /\ Call.pc = "done" /\ Call.result = "crashed"
  /\ CollName(Call.org_name) \in DOMAIN pre.collections
  /\ \E a \in pre.admins : a.id = Call.org.admin_id
  /\ CollName(Call.org_name) \notin DOMAIN collections
  /\ \A a \in admins : a.id # Call.org.admin_id
  /\ Call.org \in organizations

\* C16: new tenants start empty.  Whenever a create returns successfully, after
\* any sequence of earlier calls, calls that died part-way included, the
\* collection derived from the new tenant's name exists and holds no document.
C16_NewTenantStartsEmpty ==
  (Completed("create") /\ Call.result = "ok") =>
    /\ CollName(Call.org_name) \in DOMAIN collections
    /\ collections[CollName(Call.org_name)] = {}

\* C17: create failure residue.  When a create dies after its pre-check, the only
\* thing it leaves behind is an empty collection: the registry and the admins
\* are as they were when the call started, no record of the name exists and no
\* admin has the name as its tenant-link.
C17_CreateFailureResidue ==
  (Completed("create") /\ Call.result = "crashed") =>
    /\ organizations = pre.organizations
    /\ admins = pre.admins
    /\ OrgsNamed(Call.org_name) = {}
    /\ \A a \in admins : a.organization # Call.org_name
    /\ \A c \in DOMAIN collections :
         IF c \in DOMAIN pre.collections
         THEN collections[c] = pre.collections[c]
         ELSE c = CollName(Call.org_name) /\ collections[c] = {}

\* The two racing requests, both finished.
Upd == proc["h1"]
Other == proc["h2"]
RaceDone == Upd.pc = "done" /\ Other.pc = "done"

\* The tenant a claim of the race was issued for, as it was before the race.
RaceTenant(claim) == CHOOSE o \in RaceOrgs : o.admin_id = claim.admin_id

\* A rename to a free name and an authorized delete, both of the same tenant.
RenameDeleteRace ==
  /\ RaceDone
  /\ Upd.op = "update" /\ Other.op = "delete"
  /\ Upd.claim = Other.claim
  /\ Other.claim.org_id = Normalize(Other.raw)
  /\ \A o \in RaceOrgs : o.organization_name # Upd.new_org_name

\* The record of tenant t is still in the registry under some name, while its
\* admin or the collection the record names is gone.
Dangling(t) ==
  \E o \in organizations :
    /\ o.id = t.id
    /\ \/ \A a \in admins : a.id # o.admin_id
       \/ o.collection_name \notin DOMAIN collections

\* C18: a rename and a delete racing on the same tenant are unsafe.  Whenever
\* both have finished: if the rename returned NotFound (the delete ran first)
\* the tenant is gone altogether; if the delete returned NotFound (the rename's
\* registry update ran first) the tenant is renamed intact with its documents;
\* in every other interleaving both calls found the record, the delete has
\* removed the admin and the old collection, and the rename does not return
\* successfully with a tenant that is intact.  The witness shows such an
\* interleaving ending with the record still in the registry.
C18_RenameDeleteRaceOutcomes ==
  RenameDeleteRace =>
    LET t == RaceTenant(Upd.claim)
        new == Upd.new_org_name
        HasAdmin == \E a \in admins : a.id = t.admin_id
    IN /\ Upd.result = "NotFound" =>
            /\ Other.result = "ok"
            /\ \A o \in organizations : o.id # t.id
            /\ ~HasAdmin
            /\ t.collection_name \notin DOMAIN collections
            /\ CollName(new) \notin DOMAIN collections
       /\ Other.result = "NotFound" =>
            /\ Upd.result = "ok"
            /\ [t EXCEPT !.organization_name = new,
                         !.collection_name = CollName(new)] \in organizations
            /\ \E a \in admins : a.id = t.admin_id /\ a.organization = new
            /\ t.collection_name \notin DOMAIN collections
            /\ CollName(new) \in DOMAIN collections
            /\ collections[CollName(new)] = RaceDocs[t.id]
       /\ (Upd.result # "NotFound" /\ Other.result # "NotFound") =>
            /\ Other.result = "ok"
            /\ ~HasAdmin
            /\ t.collection_name \notin DOMAIN collections
            /\ (\E o \in organizations : o.id = t.id) => Dangling(t)
       /\ \A o \in RaceOrgs : o # t =>
            /\ o \in organizations
            /\ \E a \in admins : a.id = o.admin_id /\ a.organization = o.organization_name
            /\ collections[o.collection_name] = RaceDocs[o.id]

\* C18 witness: both calls have finished, the rename with success, and the
\* tenant's record is still in the registry, under the new name, while its admin
\* is gone and neither the old nor the new collection exists: the documents are
\* lost.
C18_Witness ==
  /\ RenameDeleteRace
  /\ Upd.result = "ok" /\ Other.result = "ok"
  /\ LET t == RaceTenant(Upd.claim)
     IN /\ \E o \in organizations :
             o.id = t.id /\ o.organization_name = Upd.new_org_name
        /\ \A a \in admins : a.id # t.admin_id
        /\ t.collection_name \notin DOMAIN collections
        /\ CollName(Upd.new_org_name) \notin DOMAIN collections

\* C19: a claim only acts on its own admin's tenant.  A completed update or
\* delete that has changed a record, an admin or a collection acted on a tenant
\* whose record names the admin the claim identifies.
C19_ClaimActsOnOwnTenant ==
  ((Completed("update") \/ Completed("delete")) /\ ~DbUnchanged) =>
    /\ Call.org \in pre.organizations
    /\ Call.org.admin_id = Call.claim.admin_id

\* C20: no data loss under concurrent renames.  Whenever two updates by the two
\* tenants have both finished, in whatever order their steps interleaved, each
\* tenant's record is in the registry and names a collection that exists and
\* holds every document the tenant had before the two calls.
C20_ConcurrentRenamesKeepData ==
  (/\ RaceDone
   /\ Upd.op = "update" /\ Other.op = "update"
   /\ Upd.claim # Other.claim) =>
    \A t \in RaceOrgs :
      \E o \in organizations :
        /\ o.id = t.id
        /\ o.collection_name \in DOMAIN collections
        /\ RaceDocs[t.id] \subseteq collections[o.collection_name]
====
